---- MODULE Spec2Model ----
(***************************************************************************)
(* A model of pxr/imaging/rprUsd/materialRegistry.cpp:                     *)
(*   - RprUsdMaterialRegistry::CreateMaterial: the per-node pass over the  *)
(*     Hydra network, the synthesis of the Houdini principled node, the    *)
(*     memoized recursive getNodeOutput, terminal extraction and Finalize; *)
(*   - RprUsdMaterialRegistry::CommitResources: the three phases of        *)
(*     texture resolution.                                                 *)
(*   - two CreateMaterial calls at once on one registry, up to the return   *)
(*     of CreateMaterialXFromUsdShade.                                     *)
(* The three share no state; each has its own specification.               *)
(***************************************************************************)
EXTENDS Integers, Sequences, FiniteSets, TLC

VARIABLES
    \* ---- CreateMaterial ----
    pc,              \* position inside CreateMaterial
    nodeIdx,         \* position of the per-node loop (line 491)
    materialNodes,   \* out->materialNodes: the node paths that own a backend node
    hSurfPath,       \* houdiniPrincipledShaderNodePath (0: nullptr)
    hDispPath,       \* node whose parameters houdiniPrincipledShaderDispParams points to (0: nullptr)
    ev,              \* what the last step did (history, for the per-step claims)
    network,         \* the HdMaterialNetwork2 read by getNodeOutput
    visited,         \* std::set<SdfPath> visited
    log,             \* the calls made on backend nodes, in program order (history)
    outputs,         \* volumeOutput, surfaceOutput, displacementOutput
    material         \* what CreateMaterial returns

buildVars == <<pc, nodeIdx, materialNodes, hSurfPath, hDispPath, ev, network,
               visited, log, outputs, material>>

VARIABLES
    queue,           \* m_textureCommits
    cache,           \* the images the image cache holds, by key
    exists,          \* the files on storage (ArchFileAccess)
    cpc,             \* position inside CommitResources
    ci,              \* the index i of the loop in progress
    uniqueTextures,  \* std::vector<UniqueTextureInfo> uniqueTextures
    perCommit,       \* uniqueTextureIndicesPerCommit
    toLoad,          \* the unique textures no task of phase 2 has started on yet
    loading,         \* the unique textures whose load is running
    calls,           \* per commit ever queued, the images its callback received (history)
    stats,           \* cache queries, raw loads and images created by the call (history)
    retired,         \* the commits that were queued when a finished call started (history)
    cev              \* what the last step did (history)

commitVars == <<queue, cache, exists, cpc, ci, uniqueTextures, perCommit, toLoad,
                loading, calls, stats, retired, cev>>

VARIABLES
    stdlibPath,      \* m_materialXStdlibPath, the member CreateMaterial hands out by pointer
    usdPlugin,       \* whether PlugRegistry finds the plugin of UsdSchemaBase
    tpc,             \* per concurrent CreateMaterial call, its position
    tin,             \* per call, what its own network and context make it do
    tres,            \* per call, what it returned and the library path it loaded from
    raced            \* two calls accessed one registry member at once, one writing (history)

mtlxVars == <<stdlibPath, usdPlugin, tpc, tin, tres, raced>>

vars == <<buildVars, commitVars, mtlxVars>>

(***************************************************************************)
(* Bounds of the network space.                                            *)
(***************************************************************************)
\* Total number of connection elements of a network: terminal connections,
\* input connection elements, and input entries that hold no element.
MaxConns == 3

\* network.nodes: a std::map keyed by node path, iterated in key order.
Nodes == {1, 2, 3}

\* A path that is no key of network.nodes (a dangling reference).
Upstreams == Nodes \cup {0}

\* Input names of one node, in the order of the std::map<TfToken, ...>.
InputNames == {1, 2}

TerminalNames == <<"volume", "surface", "displacement">>

\* HdMaterialConnection2: terminal connections read the output named after
\* the terminal, input connections read the output "out".
TerminalConns(t) == [up : Upstreams, out : {t}]
InputConns == [up : Upstreams, out : {"out"}]

NoConn == [up |-> 0, out |-> "none"]

\* One entry of inputConnections: a vector of 0, 1 or 2 connections.
EntryOptions ==
    {<<>>} \cup {<<c>> : c \in InputConns}
           \cup {<<c, d>> : c \in InputConns, d \in InputConns}

EntryCost(e) == IF Len(e) = 0 THEN 1 ELSE Len(e)

\* inputConnections of one node: the entries in the order of their names.
RECURSIVE NodeInputs(_, _)
NodeInputs(k, budget) ==
    IF k = 0 THEN {<<>>}
    ELSE {<<>>} \cup
         UNION { { <<e>> \o rest : rest \in NodeInputs(k - 1, budget - EntryCost(e)) }
                 : e \in {x \in EntryOptions : EntryCost(x) <= budget} }

RECURSIVE SeqCost(_)
SeqCost(ins) == IF ins = <<>> THEN 0 ELSE EntryCost(Head(ins)) + SeqCost(Tail(ins))

\* All input maps [node -> inputConnections] within a budget.
RECURSIVE InputMaps(_, _)
InputMaps(ns, budget) ==
    IF ns = {} THEN {<<>>}
    ELSE LET n == CHOOSE x \in ns : \A y \in ns : x >= y
         IN UNION { { Append(m, ins) : m \in InputMaps(ns \ {n}, budget - SeqCost(ins)) }
                    : ins \in NodeInputs(Cardinality(InputNames), budget) }

RECURSIVE TerminalMaps(_, _)
TerminalMaps(k, budget) ==
    IF k = 0 THEN {<<>>}
    ELSE { Append(m, NoConn) : m \in TerminalMaps(k - 1, budget) }
         \cup (IF budget = 0 THEN {}
               ELSE { Append(m, c) : m \in TerminalMaps(k - 1, budget - 1),
                                     c \in TerminalConns(TerminalNames[k]) })

TermCost(ts) == Cardinality({k \in DOMAIN ts : ts[k] # NoConn})

\* The networks within the budget of MaxConns.
BudgetNetworks ==
    UNION { { [inputs |-> ins, terminals |-> ts]
              : ins \in InputMaps(Nodes, MaxConns - TermCost(ts)) }
            : ts \in TerminalMaps(Len(TerminalNames), MaxConns) }

\* Networks beyond the budget: the surface terminal reads a node with two
\* inputs, one of two connection elements and one of one element, in either
\* order; the other nodes have no input.
FanInNetworks ==
    { [inputs |-> [m \in Nodes |-> IF m = n THEN ins ELSE <<>>],
       terminals |-> <<NoConn, [up |-> n, out |-> "surface"], NoConn>>]
      : n \in Nodes,
        ins \in { <<(<<c, d>>), (<<e>>)>> : c \in InputConns, d \in InputConns, e \in InputConns }
           \cup { <<(<<e>>), (<<c, d>>)>> : c \in InputConns, d \in InputConns, e \in InputConns } }

Networks == BudgetNetworks \cup FanInNetworks

NoNetwork == [inputs |-> <<>>, terminals |-> <<>>]

(***************************************************************************)
(* Values (VtValue) and the calls on backend nodes.                        *)
(***************************************************************************)
\* VtValue(): the empty value.
Empty == [kind |-> "empty", node |-> 0, out |-> "none"]

\* materialNode->GetOutput(upstreamOutputName): the named output of a
\* backend node.
GetOutput(n, o) == [kind |-> "output", node |-> n, out |-> o]

\* The recursion of getNodeOutput nests at most this deep on a network on
\* which it terminates: a frame is the first visit of a constructed node, a
\* return from a visited one, or a pass through a node with no backend node,
\* and a run of pass-through frames that repeats a node never ends.
StackLimit == (Cardinality(Nodes) + 1) * (Cardinality(Nodes) + 1)

\* The traversal state threaded through getNodeOutput.
Trav(vis, lg, ovf) == [visited |-> vis, log |-> lg, overflow |-> ovf]

\* One call or log line of the traversal: what, on which node, for which
\* input entry (0: none), with which value.
Event(op, n, i, v) == [op |-> op, node |-> n, input |-> i, val |-> v]

Logged(s, e) == [s EXCEPT !.log = Append(@, e)]

\* network.nodes.find(nodePath) != network.nodes.end()
InNetwork(path) == path \in Nodes

\* materialNodes.find(nodePath) != materialNodes.end()
HasMaterialNode(mat, path) == path \in mat

\* Mutant: the visited set is never consulted.
NotVisitedIgnoresSet(s, path) == TRUE

\* Mutant: the test is inverted, so a fresh node is never wired.
NotVisitedInverted(s, path) == path \in s.visited

\* visited.count(nodePath) == 0
NotVisited(s, path) == path \notin s.visited

\* Mutant: several connection elements are accepted, the first is followed.
IsSomeConnection(connections) == Len(connections) >= 1

\* connections.size() != 1 is the skip test of both branches.
IsSingleConnection(connections) == Len(connections) = 1

\* Mutant: the empty value is bound like any other.
IsBoundAlways(val) == TRUE

\* Mutant: no value is bound.
IsBoundNever(val) == FALSE

\* !nodeOutput.IsEmpty()
IsBound(val) == val # Empty

\* Mutant: a node with no backend node always resolves to the empty value.
NoInputConnectionsSevers(inputs) == TRUE

\* node.inputConnections.empty()
NoInputConnections(inputs) == inputs = <<>>

\* Mutant: the last input is followed instead of the first.
LastInput(inputs) == inputs[Len(inputs)]

\* node.inputConnections.begin()->second
FirstInput(inputs) == inputs[1]

RECURSIVE GetNodeOutput(_, _, _, _, _)
RECURSIVE WireInputs(_, _, _, _, _, _)

\* getNodeOutput(nodeConnection): the value and the traversal state after it.
GetNodeOutput(net, mat, conn, s, depth) ==
    IF depth > StackLimit
    THEN [val |-> Empty, s |-> [s EXCEPT !.overflow = TRUE]]
    ELSE IF ~InNetwork(conn.up)
    THEN [val |-> Empty, s |-> Logged(s, Event("invalid", conn.up, 0, Empty))]
    ELSE LET inputs == net.inputs[conn.up] IN
      IF HasMaterialNode(mat, conn.up)
      THEN LET s1 == IF NotVisited(s, conn.up)
                     THEN WireInputs(net, mat, conn.up, 1,
                                     Logged([s EXCEPT !.visited = @ \cup {conn.up}],
                                            Event("wire", conn.up, 0, Empty)),
                                     depth)
                     ELSE s
           IN IF s1.overflow THEN [val |-> Empty, s |-> s1]
              ELSE [val |-> GetOutput(conn.up, conn.out),
                    s |-> Logged(s1, Event("GetOutput", conn.up, 0, GetOutput(conn.up, conn.out)))]
      ELSE IF NoInputConnections(inputs)
      THEN [val |-> Empty, s |-> s]
      ELSE LET connections == FirstInput(inputs) IN
           IF ~IsSingleConnection(connections)
           THEN [val |-> Empty,
                 s |-> IF Len(connections) > 1
                       THEN Logged(s, Event("unsupported", conn.up, 1, Empty)) ELSE s]
           ELSE GetNodeOutput(net, mat, connections[1], s, depth + 1)

\* The loop over node.inputConnections of a constructed node, from entry i.
WireInputs(net, mat, n, i, s, depth) ==
    IF s.overflow THEN s
    ELSE IF i > Len(net.inputs[n]) THEN Logged(s, Event("wired", n, 0, Empty))
    ELSE LET connections == net.inputs[n][i] IN
         IF ~IsSingleConnection(connections)
         THEN WireInputs(net, mat, n, i + 1,
                         IF Len(connections) > 1
                         THEN Logged(s, Event("unsupported", n, i, Empty)) ELSE s,
                         depth)
         ELSE LET r == GetNodeOutput(net, mat, connections[1], s, depth + 1)
                  s2 == IF r.s.overflow THEN r.s
                        ELSE IF IsBound(r.val)
                        THEN Logged(Logged(r.s, Event("resolved", n, i, r.val)),
                                    Event("SetInput", n, i, r.val))
                        ELSE Logged(r.s, Event("resolved", n, i, r.val))
              IN WireInputs(net, mat, n, i + 1, s2, depth)

\* getTerminalOutput(terminalName), for the k-th of TerminalNames.
GetTerminalOutput(net, mat, k, s) ==
    IF net.terminals[k] = NoConn
    THEN [val |-> Empty, s |-> s]
    ELSE GetNodeOutput(net, mat, net.terminals[k], s, 1)

\* The three getTerminalOutput calls in the order of the code: volume,
\* surface, displacement.
ResolveTerminals(net, mat) ==
    LET v == GetTerminalOutput(net, mat, 1, Trav({}, <<>>, FALSE))
        f == IF v.s.overflow THEN v ELSE GetTerminalOutput(net, mat, 2, v.s)
        d == IF f.s.overflow THEN f ELSE GetTerminalOutput(net, mat, 3, f.s)
    IN [outputs |-> <<v.val, f.val, d.val>>, s |-> d.s]

NoOutputs == <<Empty, Empty, Empty>>

(***************************************************************************)
(* CreateMaterial.                                                         *)
(***************************************************************************)
NoEvent == [step |-> "none"]
NoMaterial == [returned |-> "none"]

InitBuild ==
    /\ pc = "entry"
    /\ nodeIdx = 0
    /\ materialNodes = {}
    /\ hSurfPath = 0
    /\ hDispPath = 0
    /\ ev = NoEvent
    /\ network = NoNetwork
    /\ visited = {}
    /\ log = <<>>
    /\ outputs = NoOutputs
    /\ material = NoMaterial

\* Lines 416-432: unless the network is a volume, a MaterialX material made
\* by CreateMaterialXFromUsdShade is returned before the graph is built.
TryMaterialX ==
    /\ pc = "entry"
    /\ \E isVolume \in BOOLEAN, usdShadeMtlxMaterial \in BOOLEAN :
         IF ~isVolume /\ usdShadeMtlxMaterial
         THEN /\ pc' = "done"
              /\ material' = [returned |-> "mtlx"]
              /\ nodeIdx' = nodeIdx
         ELSE /\ pc' = "nodes"
              /\ material' = material
              /\ nodeIdx' = 1
    /\ ev' = [step |-> "TryMaterialX"]
    /\ UNCHANGED <<materialNodes, hSurfPath, hDispPath, network, visited, log, outputs>>
    /\ UNCHANGED commitVars
    /\ UNCHANGED mtlxVars

\* What the body of the per-node loop can meet for one node: a registered
\* type whose factory returns a node, returns null, throws RprUsd_NodeError
\* or throws RprUsd_NodeEmpty; an unregistered type that is the surface or
\* the displacement part of a Houdini principled shader; an unknown type.
NodeOutcomes ==
    {"node", "null", "NodeError", "NodeEmpty",
     "houdiniSurface", "houdiniDisplacement", "unknown"}

\* Mutant: a null pointer returned by the factory is recorded too.
RecordNodeEvenNull(mat, n, outcome) ==
    IF outcome \in {"node", "null"} THEN mat \cup {n} ELSE mat

\* materialNodes[nodePath].reset(materialNode), only for a non-null node.
RecordNode(mat, n, outcome) == IF outcome = "node" THEN mat \cup {n} ELSE mat

\* Lines 491-518: one iteration of the loop over network.nodes.
CreateNode ==
    /\ pc = "nodes"
    /\ nodeIdx \in Nodes
    /\ \E outcome \in NodeOutcomes :
         /\ materialNodes' = RecordNode(materialNodes, nodeIdx, outcome)
         /\ hSurfPath' = IF outcome = "houdiniSurface" THEN nodeIdx ELSE hSurfPath
         /\ hDispPath' = IF outcome = "houdiniDisplacement" THEN nodeIdx ELSE hDispPath
         /\ ev' = [step |-> "CreateNode", node |-> nodeIdx, outcome |-> outcome]
    /\ nodeIdx' = nodeIdx + 1
    /\ pc' = IF nodeIdx + 1 \in Nodes THEN "nodes" ELSE "synth"
    /\ UNCHANGED <<network, visited, log, outputs, material>>
    /\ UNCHANGED commitVars
    /\ UNCHANGED mtlxVars

\* new RprUsd_HoudiniPrincipledNode(...): it returns the node or throws.
HoudiniOutcomes == {"node", "NodeError"}

\* Is the construction at line 521 inside a try block that catches the
\* exception? It is not: the try of lines 496-517 ends with the loop body.
HoudiniErrorCaught == FALSE

\* Lines 520-523: the composite node is built after the loop, when a surface
\* part was seen.
SynthesizeHoudini ==
    /\ pc = "synth"
    /\ IF hSurfPath # 0
       THEN \E outcome \in HoudiniOutcomes :
              /\ ev' = [step |-> "Synthesize", node |-> hSurfPath,
                        disp |-> hDispPath, outcome |-> outcome]
              /\ IF outcome = "node"
                 THEN /\ materialNodes' = materialNodes \cup {hSurfPath}
                      /\ pc' = "resolve"
                 ELSE /\ materialNodes' = materialNodes
                      /\ pc' = IF HoudiniErrorCaught THEN "resolve" ELSE "escaped"
       ELSE /\ ev' = [step |-> "Synthesize", node |-> 0,
                      disp |-> hDispPath, outcome |-> "skipped"]
            /\ materialNodes' = materialNodes
            /\ pc' = "resolve"
    \* the three Houdini locals are not read after line 523
    /\ hSurfPath' = 0
    /\ hDispPath' = 0
    /\ UNCHANGED <<nodeIdx, network, visited, log, outputs, material>>
    /\ UNCHANGED commitVars
    /\ UNCHANGED mtlxVars

\* Lines 525-597: the three terminal outputs. The connections and terminals
\* of the network are first read here, so they are drawn here.
ResolveOutputs ==
    /\ pc = "resolve"
    /\ \E net \in Networks :
         LET r == ResolveTerminals(net, materialNodes) IN
         /\ network' = net
         /\ visited' = r.s.visited
         /\ log' = r.s.log
         /\ outputs' = IF r.s.overflow THEN NoOutputs ELSE r.outputs
         /\ pc' = IF r.s.overflow THEN "overflow" ELSE "finalize"
    /\ ev' = [step |-> "ResolveOutputs"]
    /\ UNCHANGED <<nodeIdx, materialNodes, hSurfPath, hDispPath, material>>
    /\ UNCHANGED commitVars
    /\ UNCHANGED mtlxVars

\* getTerminalRprNode: the backend node held by a terminal output, 0 for
\* nullptr. holds[v]: v.IsHolding<std::shared_ptr<rpr::MaterialNode>>().
GetTerminalRprNode(val, holds) ==
    IF val # Empty
    THEN IF holds[val] THEN val.node ELSE 0
    ELSE 0

\* Mutant: only the surface node decides.
FinalizeResultSurfaceOnly(volumeNode, surfaceNode, displacementNode) ==
    surfaceNode # 0

\* return m_volumeNode || m_surfaceNode || m_displacementNode
FinalizeResult(volumeNode, surfaceNode, displacementNode) ==
    volumeNode # 0 \/ surfaceNode # 0 \/ displacementNode # 0

\* The integer values the parameter RprUsdTokens->id is given.
IdValues == {-2, -1, 0, 7}

\* What parameters.find(RprUsdTokens->id) and IsHolding<int>() find on a
\* node: no integer, or an integer.
NoIdParam == [present |-> FALSE, value |-> 0]
IdParams == {NoIdParam} \cup {[present |-> TRUE, value |-> v] : v \in IdValues}

\* Lines 602-607: the node the surface terminal names is a node of the
\* network.
SurfaceTerminalNode(net) ==
    IF net.terminals[2] # NoConn /\ net.terminals[2].up \in Nodes
    THEN net.terminals[2].up ELSE 0

\* Lines 599-617: materialRprId, -1 unless that node holds an integer id.
MaterialRprId(net, idParam) ==
    IF SurfaceTerminalNode(net) # 0 /\ idParam.present THEN idParam.value ELSE -1

\* Mutant: the sign of the identifier is not tested.
TagsSurfaceNodeUnguarded(surfaceNode, materialId) == surfaceNode # 0

\* Lines 466-467: if (m_surfaceNode) { if (materialId >= 0) {
TagsSurfaceNode(surfaceNode, materialId) == surfaceNode # 0 /\ materialId >= 0

NoTag == [called |-> FALSE, id |-> 0]

\* Line 470: rprMaterialNodeSetID(apiHandle, rpr_uint(materialId))
SetID(materialId) == [called |-> TRUE, id |-> materialId]

\* Lines 438-477 and 599-634: the identifier of the surface node, Finalize,
\* and the release or discard of out.
Finalize ==
    /\ pc = "finalize"
    /\ \E holds \in [{outputs[k] : k \in 1..3} \ {Empty} -> BOOLEAN],
          idParam \in (IF SurfaceTerminalNode(network) # 0 THEN IdParams ELSE {NoIdParam}) :
         LET volumeNode == GetTerminalRprNode(outputs[1], holds)
             surfaceNode == GetTerminalRprNode(outputs[2], holds)
             displacementNode == GetTerminalRprNode(outputs[3], holds)
             materialId == MaterialRprId(network, idParam)
         IN material' =
              [returned |-> IF FinalizeResult(volumeNode, surfaceNode, displacementNode)
                            THEN "graph" ELSE "null",
               volumeNode |-> volumeNode,
               surfaceNode |-> surfaceNode,
               displacementNode |-> displacementNode,
               idParam |-> idParam,
               tag |-> IF TagsSurfaceNode(surfaceNode, materialId)
                       THEN SetID(materialId) ELSE NoTag]
    /\ pc' = "done"
    /\ ev' = [step |-> "Finalize"]
    /\ UNCHANGED <<nodeIdx, materialNodes, hSurfPath, hDispPath, network, visited,
                   log, outputs>>
    /\ UNCHANGED commitVars
    /\ UNCHANGED mtlxVars


(***************************************************************************)
(* Claims about CreateMaterial.                                            *)
(***************************************************************************)
Resolved == pc \in {"finalize", "done", "overflow"} /\ network # NoNetwork

EventsOf(op, n) == {k \in DOMAIN log : log[k].op = op /\ log[k].node = n}

\* C1: during one CreateMaterial call the input-wiring step of every
\* constructed backend node runs at most once, however many downstream
\* paths and terminals reach the node.
C1_WiredAtMostOnce ==
    \A n \in Nodes : Cardinality(EventsOf("wire", n)) <= 1

\* A node with an input to bind whose output was read by two terminals, and
\* which was wired once.
C1_Witness ==
    /\ pc = "done"
    /\ \E n \in Nodes :
         /\ Cardinality(EventsOf("GetOutput", n)) >= 2
         /\ Cardinality(EventsOf("wire", n)) = 1
         /\ EventsOf("SetInput", n) # {}

\* The connections getNodeOutput follows out of node n: every single-element
\* input of a constructed node, the first input (if single) of any other.
Followed(n) ==
    LET inputs == IF n \in DOMAIN network.inputs THEN network.inputs[n] ELSE <<>> IN
    IF n \in materialNodes
    THEN {inputs[i][1].up : i \in {j \in DOMAIN inputs : Len(inputs[j]) = 1}} \cap Nodes
    ELSE IF inputs # <<>> /\ Len(inputs[1]) = 1
         THEN {inputs[1][1].up} \cap Nodes
         ELSE {}

RECURSIVE ReachedIn(_, _)
ReachedIn(from, steps) ==
    IF steps = 0 THEN from
    ELSE ReachedIn(from \cup UNION {Followed(m) : m \in from}, steps - 1)

\* n lies on a cycle of followed connections.
OnCycle(n) == n \in ReachedIn(Followed(n), Cardinality(Nodes))

\* Before log position k, node n's wiring loop has ended and every input of
\* n with exactly one connection element was resolved and, if non-empty,
\* bound with SetInput.
FullyWiredBefore(n, k) ==
    /\ \E j \in 1..(k - 1) : log[j].op = "wired" /\ log[j].node = n
    /\ \A i \in DOMAIN network.inputs[n] :
         Len(network.inputs[n][i]) = 1 =>
           \E j \in 1..(k - 1) :
             /\ log[j].op = "resolved" /\ log[j].node = n /\ log[j].input = i
             /\ log[j].val # Empty =>
                  /\ j + 1 < k
                  /\ log[j + 1] = Event("SetInput", n, i, log[j].val)

\* C2 as claimed: a GetOutput of a constructed node is only made once the
\* node's inputs are fully wired.
C2_OutputReadAfterWiring ==
    Resolved =>
      \A k \in DOMAIN log :
        log[k].op = "GetOutput" => FullyWiredBefore(log[k].node, k)

\* C2 as amended: the same, for every node that is on no cycle of
\* connections.
C2_OutputReadAfterWiringAcyclic ==
    Resolved =>
      \A k \in DOMAIN log :
        (log[k].op = "GetOutput" /\ ~OnCycle(log[k].node))
          => FullyWiredBefore(log[k].node, k)

\* A node on no cycle with two inputs bound, whose output was then read.
C2_Witness ==
    /\ pc = "done"
    /\ \E n \in Nodes :
         /\ ~OnCycle(n)
         /\ Cardinality(EventsOf("SetInput", n)) = 2
         /\ EventsOf("GetOutput", n) # {}

\* Node b has no backend node and exactly one input connection, from
\* another node or from a path outside the network.
PassedThrough(b) ==
    /\ b \notin materialNodes
    /\ Len(network.inputs[b]) = 1
    /\ Len(network.inputs[b][1]) = 1
    /\ network.inputs[b][1][1].up # b

\* The network with b removed: every connection to b is replaced by b's one
\* input connection, and b keeps no connection of its own.
Redirect(c, b, a) == IF c.up = b THEN a ELSE c

Collapsed(b) ==
    LET a == network.inputs[b][1][1] IN
    [inputs |-> [n \in DOMAIN network.inputs |->
                   IF n = b THEN <<>>
                   ELSE [i \in DOMAIN network.inputs[n] |->
                           [j \in DOMAIN network.inputs[n][i] |->
                              Redirect(network.inputs[n][i][j], b, a)]]],
     terminals |-> [k \in DOMAIN network.terminals |->
                      IF network.terminals[k] = NoConn THEN NoConn
                      ELSE Redirect(network.terminals[k], b, a)]]

SetInputCalls(lg) == SelectSeq(lg, LAMBDA e : e.op = "SetInput")

\* C3: a node with no backend node and exactly one input connection can be
\* removed, its consumers connected to its input, without changing the
\* terminal values or the inputs bound.
C3_PassThroughCollapse ==
    (pc \in {"finalize", "overflow"} /\ network # NoNetwork) =>
      \A b \in Nodes :
        PassedThrough(b) =>
          LET r == ResolveTerminals(Collapsed(b), materialNodes) IN
          /\ r.s.overflow = (pc = "overflow")
          /\ ~r.s.overflow =>
               /\ r.outputs = outputs
               /\ SetInputCalls(r.s.log) = SetInputCalls(log)

\* The chain 1 -> 2 -> 3: the surface terminal reads node 3, whose input
\* reads node 2, which has no backend node and reads node 1.
C3_Witness ==
    /\ pc = "finalize"
    /\ materialNodes = {1, 3}
    /\ PassedThrough(2)
    /\ network.inputs[2][1][1].up = 1
    /\ network.terminals[2].up = 3
    /\ \E k \in EventsOf("SetInput", 3) : log[k].val = GetOutput(1, "out")
    /\ outputs[2] = GetOutput(3, "surface")

GraphBuilt == pc = "done" /\ material.returned \in {"graph", "null"}

\* m_volumeNode, m_surfaceNode, m_displacementNode of the finished material.
TerminalNode(k) ==
    <<material.volumeNode, material.surfaceNode, material.displacementNode>>[k]

\* C4: the graph-based build returns a material exactly when a terminal
\* output holds a backend material node, and a lone surface terminal on a
\* node with no backend node and no input yields null.
C4_SuccessIffTerminalNode ==
    GraphBuilt =>
      /\ (material.returned = "graph") <=>
           (\/ material.volumeNode # 0
            \/ material.surfaceNode # 0
            \/ material.displacementNode # 0)
      /\ \A k \in 1..3 :
           TerminalNode(k) # 0 =>
             /\ TerminalNode(k) \in materialNodes
             /\ outputs[k] # Empty
             /\ outputs[k].node = TerminalNode(k)
      /\ outputs = NoOutputs => material.returned = "null"
      /\ ( /\ network.terminals[1] = NoConn
           /\ network.terminals[3] = NoConn
           /\ network.terminals[2] # NoConn
           /\ network.terminals[2].up \in Nodes \ materialNodes
           /\ network.inputs[network.terminals[2].up] = <<>> )
         => material.returned = "null"

\* A material returned although the surface terminal gave no node.
C4_Witness ==
    /\ GraphBuilt
    /\ material.returned = "graph"
    /\ network.terminals[2] # NoConn
    /\ material.surfaceNode = 0
    /\ material.displacementNode # 0

\* C10: no exception leaves CreateMaterial.
C10_NoExceptionEscapes == pc # "escaped"

\* The outcomes of the loop body that construct no backend node and are no
\* part of a Houdini principled shader.
FailedOutcomes == {"unknown", "null", "NodeError", "NodeEmpty"}

\* C12: an iteration of the per-node loop whose node is of unknown type, or
\* whose factory returns null or throws, records nothing and leaves the
\* nodes recorded so far as they are; an iteration whose factory succeeds
\* records its node under its own path; in both cases the loop goes on to
\* the next node, or to the step after the loop when there is none.
C12_NodeFailureIsLocal ==
    [][ (ev'.step = "CreateNode" /\ ev' # ev) =>
          /\ ev'.node = nodeIdx
          /\ ev'.outcome \in FailedOutcomes =>
               (materialNodes' = materialNodes /\ ev'.node \notin materialNodes')
          /\ ev'.outcome = "node" => materialNodes' = materialNodes \cup {ev'.node}
          /\ nodeIdx' = nodeIdx + 1
          /\ pc' = IF nodeIdx' \in Nodes THEN "nodes" ELSE "synth"
      ]_vars

\* Node 2 failed between nodes 1 and 3, whose factories succeeded.
C12_Witness ==
    /\ ev.step = "CreateNode"
    /\ ev.node = 3
    /\ ev.outcome = "node"
    /\ materialNodes = {1, 3}
    /\ hSurfPath = 0
    /\ hDispPath = 0

\* C13: the composite node is constructed after the loop exactly when the
\* loop classified a node as the surface or as the displacement part of a
\* Houdini principled shader, and never while the loop still runs.
C13_CompositeSynthesizedOnce ==
    /\ ev.step = "Synthesize" =>
         ((ev.node # 0 \/ ev.disp # 0) <=> ev.outcome # "skipped")
    /\ pc = "nodes" => (hSurfPath = 0 \/ hSurfPath \notin materialNodes)

\* What getNodeOutput returns for a connection of the network read; the
\* value does not depend on the nodes visited before.
ValueOf(conn) ==
    GetNodeOutput(network, materialNodes, conn, Trav(Nodes, <<>>, FALSE), 1).val

\* The terminals that point to a node of the network with no backend node.
PassThroughTerminals ==
    {k \in DOMAIN network.terminals :
       /\ network.terminals[k] # NoConn
       /\ network.terminals[k].up \in Nodes \ materialNodes}

DanglingInputs ==
    {<<n, i>> \in Nodes \X InputNames :
       /\ n \in materialNodes \cap visited
       /\ i \in DOMAIN network.inputs[n]
       /\ Len(network.inputs[n][i]) = 1
       /\ network.inputs[n][i][1].up \notin Nodes}

\* Input i of node n was resolved to val, and bound if bind.
ResolvedAs(n, i, val, bind) ==
    /\ \E k \in DOMAIN log : log[k] = Event("resolved", n, i, val)
    /\ bind <=> \E k \in DOMAIN log : log[k] = Event("SetInput", n, i, val)

\* C16: a connection to a path that is no node of the network resolves to
\* the empty value, binds nothing and adds nothing to the visited set; the
\* other inputs of the node and the other terminals are resolved as they
\* are without it.
C16_DanglingReference ==
    pc = "finalize" =>
      /\ visited \subseteq Nodes
      /\ \A k \in DOMAIN log :
           log[k].node \notin Nodes => (log[k].op = "invalid" /\ log[k].val = Empty)
      /\ \A k \in DOMAIN network.terminals :
           /\ (network.terminals[k] # NoConn /\ network.terminals[k].up \notin Nodes)
                => outputs[k] = Empty
           /\ (network.terminals[k] # NoConn /\ network.terminals[k].up \in Nodes)
                => outputs[k] = ValueOf(network.terminals[k])
      /\ \A d \in DanglingInputs :
           /\ ResolvedAs(d[1], d[2], Empty, FALSE)
           /\ \E k \in DOMAIN log : log[k] = Event("wired", d[1], 0, Empty)
           /\ \A j \in DOMAIN network.inputs[d[1]] :
                Len(network.inputs[d[1]][j]) = 1 =>
                  LET val == ValueOf(network.inputs[d[1]][j][1])
                  IN ResolvedAs(d[1], j, val, val # Empty)

\* The first input of node 3 is dangling, its second input reads node 1, and
\* the surface terminal reads node 3.
C16_Witness ==
    /\ pc = "finalize"
    /\ <<3, 1>> \in DanglingInputs
    /\ ResolvedAs(3, 2, GetOutput(1, "out"), TRUE)
    /\ \E k \in DOMAIN log : log[k].op = "invalid"
    /\ outputs[2] = GetOutput(3, "surface")

\* C17: an input of a constructed node with zero or several connection
\* elements is never resolved nor bound; every input of the node with exactly
\* one element is resolved, and bound when the value is not empty; the
\* node's output is returned.
C17_UnsupportedFanIn ==
    pc = "finalize" =>
      \A n \in materialNodes \cap visited :
        /\ EventsOf("GetOutput", n) # {}
        /\ \A i \in DOMAIN network.inputs[n] :
             IF Len(network.inputs[n][i]) = 1
             THEN LET val == ValueOf(network.inputs[n][i][1])
                  IN ResolvedAs(n, i, val, val # Empty)
             ELSE \A k \in DOMAIN log :
                    (log[k].node = n /\ log[k].input = i) =>
                      (log[k].op = "unsupported" /\ Len(network.inputs[n][i]) > 1)

\* The surface terminal reads node 3, whose first input has two connection
\* elements and whose second input reads node 1.
C17_Witness ==
    /\ pc = "finalize"
    /\ network.terminals[2].up = 3
    /\ {1, 3} \subseteq materialNodes
    /\ Len(network.inputs[3]) = 2
    /\ Len(network.inputs[3][1]) = 2
    /\ network.inputs[3][1][1].up = 2
    /\ ResolvedAs(3, 2, GetOutput(1, "out"), TRUE)
    /\ \E k \in DOMAIN log : log[k] = Event("unsupported", 3, 1, Empty)
    /\ outputs[2] = GetOutput(3, "surface")

\* The inputs of constructed, visited nodes whose one connection resolves to
\* the empty value.
EmptyInputs ==
    {<<n, i>> \in Nodes \X InputNames :
       /\ n \in materialNodes \cap visited
       /\ i \in DOMAIN network.inputs[n]
       /\ Len(network.inputs[n][i]) = 1
       /\ ValueOf(network.inputs[n][i][1]) = Empty}

\* The positions of the log where input i of node n is resolved or bound.
InputEvents(op, n, i) ==
    {k \in DOMAIN log : log[k].op = op /\ log[k].node = n /\ log[k].input = i}

\* C24: SetInput is called only with the non-empty value just resolved from
\* the one connection of an input of a constructed node; an input whose
\* connection resolves to the empty value is never set, and the inputs after
\* it are resolved after it and set when their value is not empty.
C24_EmptyInputLeftUnset ==
    pc = "finalize" =>
      /\ \A k \in DOMAIN log :
           log[k].op = "SetInput" =>
             /\ log[k].val # Empty
             /\ log[k].node \in materialNodes
             /\ log[k].input \in DOMAIN network.inputs[log[k].node]
             /\ Len(network.inputs[log[k].node][log[k].input]) = 1
             /\ log[k].val = ValueOf(network.inputs[log[k].node][log[k].input][1])
             /\ k > 1
             /\ log[k - 1] = Event("resolved", log[k].node, log[k].input, log[k].val)
      /\ \A e \in EmptyInputs :
           /\ ResolvedAs(e[1], e[2], Empty, FALSE)
           /\ InputEvents("SetInput", e[1], e[2]) = {}
           /\ EventsOf("wired", e[1]) # {}
           /\ \A j \in DOMAIN network.inputs[e[1]] :
                (j > e[2] /\ Len(network.inputs[e[1]][j]) = 1) =>
                  LET val == ValueOf(network.inputs[e[1]][j][1]) IN
                  /\ ResolvedAs(e[1], j, val, val # Empty)
                  /\ \A a \in InputEvents("resolved", e[1], e[2]),
                        b \in InputEvents("resolved", e[1], j) : a < b

\* The surface terminal reads node 3; its first input reads node 2, which
\* has no backend node and no inputs, and its second input reads node 1.
C24_Witness ==
    /\ pc = "finalize"
    /\ network.terminals[2].up = 3
    /\ {1, 3} \subseteq materialNodes
    /\ 2 \notin materialNodes
    /\ network.inputs[2] = <<>>
    /\ <<3, 1>> \in EmptyInputs
    /\ network.inputs[3][1][1].up = 2
    /\ InputEvents("SetInput", 3, 1) = {}
    /\ ResolvedAs(3, 2, GetOutput(1, "out"), TRUE)
    /\ outputs[2] = GetOutput(3, "surface")

\* C21 as claimed: the surface node is tagged with the integer identifier
\* of the surface terminal's node, whatever its value, exactly when there is
\* such an identifier and a surface node.
C21_IdentifierTagged ==
    GraphBuilt =>
      IF material.idParam.present /\ material.surfaceNode # 0
      THEN material.tag = SetID(material.idParam.value)
      ELSE material.tag = NoTag

\* C21 as amended: the surface node is tagged with the integer identifier of
\* the surface terminal's node exactly when there is such an identifier, it
\* is not negative, and there is a surface node.
C21_NonNegativeIdentifierTagged ==
    GraphBuilt =>
      IF material.idParam.present /\ material.idParam.value >= 0
         /\ material.surfaceNode # 0
      THEN material.tag = SetID(material.idParam.value)
      ELSE material.tag = NoTag

\* The surface node of a built material is tagged with the identifier 0.
C21_Witness ==
    /\ GraphBuilt
    /\ material.returned = "graph"
    /\ material.surfaceNode # 0
    /\ material.idParam = [present |-> TRUE, value |-> 0]
    /\ material.tag = SetID(0)

\* C15: getNodeOutput returns on every network, whatever cycles it has.
C15_ResolveTerminates == pc # "overflow"

NextBuild ==
    \/ TryMaterialX
    \/ CreateNode
    \/ SynthesizeHoudini
    \/ ResolveOutputs
    \/ Finalize

(***************************************************************************)
(* CommitResources.                                                        *)
(***************************************************************************)
\* Commits queued over one behaviour.
MaxCommits == 3

\* constexpr uint32_t kStartTile = 1001;
kStartTile == 1001

\* Mutant: the last tile is left out.
kEndTileExclusive == 1100 - 1

\* constexpr uint32_t kEndTile = 1100;
kEndTile == 1100

\* A file path: a base name and a number field. Number 0 stands for a path
\* with no number ("a.png"), -1 for the "<UDIM>" token ("a.<UDIM>.png"), any
\* other for that number written out ("a.1001.png").
Path(base, number) == [base |-> base, number |-> number]

\* RprUsdGetUDIMFormatString: whether the path holds the <UDIM> token.
IsUDIMPath(path) == path.number = -1

\* TfStringPrintf(formatString.c_str(), tileId): the token replaced by the id.
TilePath(path, tileId) == Path(path.base, tileId)

\* The paths commits ask for: a plain file, a file that is tile 1001 of the
\* pattern, and the pattern.
CommitPaths == {Path("a", 0), Path("a", 1001), Path("a", -1)}

ColorSpaces == {"srgb", "raw"}
WrapTypes == {"repeat"}

\* Tile files that may or may not be on storage; the files numbered 1000
\* and 1101, just outside the range, always are.
TileCandidates == {1001, 1003, 1100}
OutOfRangeTiles == {1000, 1101}

\* The tile files on storage: none, one, or all the candidates.
TilesPresent == {{}, {1003}, TileCandidates}

AllPaths == CommitPaths \cup {Path("a", t) : t \in TileCandidates \cup OutOfRangeTiles}

NoImage == [id |-> 0, tiles |-> <<>>]

NoStats == [queries |-> 0, loads |-> [p \in AllPaths |-> 0], created |-> <<>>,
            callbacks |-> 0, hits |-> {}, probes |-> 0, requests |-> <<>>,
            results |-> [p \in AllPaths |-> "none"]]

IdleBuild ==
    /\ pc = "idle"
    /\ nodeIdx = 0
    /\ materialNodes = {}
    /\ hSurfPath = 0
    /\ hDispPath = 0
    /\ ev = NoEvent
    /\ network = NoNetwork
    /\ visited = {}
    /\ log = <<>>
    /\ outputs = NoOutputs
    /\ material = NoMaterial

IdleCommit ==
    /\ queue = <<>>
    /\ cache = <<>>
    /\ exists = {}
    /\ cpc = "idle"
    /\ ci = 0
    /\ uniqueTextures = <<>>
    /\ perCommit = <<>>
    /\ toLoad = {}
    /\ loading = {}
    /\ calls = <<>>
    /\ stats = NoStats
    /\ retired = {}
    /\ cev = NoEvent

InitCommit ==
    /\ queue = <<>>
    /\ cache = <<>>
    /\ \E present \in TilesPresent :
         exists = {Path("a", t) : t \in present \cup OutOfRangeTiles}
    /\ cpc = "idle"
    /\ ci = 0
    /\ uniqueTextures = <<>>
    /\ perCommit = <<>>
    /\ toLoad = {}
    /\ loading = {}
    /\ calls = <<>>
    /\ stats = NoStats
    /\ retired = {}
    /\ cev = NoEvent

\* The key under which the image cache holds an image.
CacheKey(commit) == <<commit.filepath, commit.colorspace, commit.wrapType>>

\* A material build queues a texture commit; its callback is known by the
\* commit's id.
CommitTexture ==
    /\ cpc = "idle"
    /\ Len(calls) < MaxCommits
    /\ \E path \in CommitPaths, colorspace \in ColorSpaces, wrapType \in WrapTypes :
         queue' = Append(queue, [id |-> Len(calls) + 1, filepath |-> path,
                                 colorspace |-> colorspace, wrapType |-> wrapType])
    /\ calls' = Append(calls, <<>>)
    /\ cev' = [step |-> "CommitTexture"]
    /\ UNCHANGED <<cache, exists, cpc, ci, uniqueTextures, perCommit, toLoad, loading,
                   stats, retired>>
    /\ UNCHANGED buildVars
    /\ UNCHANGED mtlxVars

\* commit.setTextureCallback(image)
Called(cs, commit, image) == [cs EXCEPT ![commit.id] = Append(@, image)]

\* Lines 143-162: the early return on an empty queue, else the locals.
CommitResourcesBegin ==
    /\ cpc = "idle"
    /\ stats' = NoStats
    /\ IF queue = <<>>
       THEN /\ cev' = [step |-> "return", commits |-> {}, late |-> {}]
            /\ UNCHANGED <<cpc, ci, perCommit>>
       ELSE /\ cpc' = "collect"
            /\ ci' = 1
            /\ perCommit' = [i \in 1..Len(queue) |-> <<>>]
            /\ cev' = [step |-> "begin"]
    /\ uniqueTextures' = <<>>
    /\ toLoad' = {}
    /\ loading' = {}
    /\ UNCHANGED <<queue, cache, exists, calls, retired>>
    /\ UNCHANGED buildVars
    /\ UNCHANGED mtlxVars

\* uniqueTexturesMapping: the index of a path among the unique textures, 0
\* when it has none.
MappedIndex(unique, path) ==
    IF \E k \in DOMAIN unique : unique[k].path = path
    THEN CHOOSE k \in DOMAIN unique : unique[k].path = path
    ELSE 0

\* Mutant: the path is not looked up, every call adds a unique texture.
WithUniqueTextureAlwaysAdded(unique, path, udimTileId) ==
    Append(unique, [path |-> path, udimTileId |-> udimTileId, data |-> FALSE])

\* getUniqueTextureIndex(path, udimTileId): the unique textures after the
\* call; the index returned is MappedIndex of the result.
WithUniqueTexture(unique, path, udimTileId) ==
    IF MappedIndex(unique, path) # 0 THEN unique
    ELSE Append(unique, [path |-> path, udimTileId |-> udimTileId, data |-> FALSE])

\* The tile ids the loop of line 187 runs over, in its order.
TileIds == [k \in 1..(kEndTile - kStartTile + 1) |-> kStartTile + (k - 1)]

\* ArchFileAccess(tilePath.c_str(), F_OK) == 0
OnStorage(path) == path \in exists

\* Lines 187-192: the loop over the tile ids; only the ids whose tile file
\* is on storage have an effect, each that of getUniqueTextureIndex.
RECURSIVE ProbeTiles(_, _, _, _)
ProbeTiles(path, tileIds, unique, indices) ==
    IF tileIds = <<>> THEN [unique |-> unique, indices |-> indices]
    ELSE LET tilePath == TilePath(path, Head(tileIds))
             u == WithUniqueTexture(unique, tilePath, Head(tileIds))
         IN ProbeTiles(path, Tail(tileIds), u, Append(indices, MappedIndex(u, tilePath)))

\* Lines 174-196: one iteration of the first loop.
CollectCommit ==
    /\ cpc = "collect"
    \* uniqueTextureIndicesPerCommit[i] is taken on a miss only (line 181)
    /\ ci \in DOMAIN perCommit \/ CacheKey(queue[ci]) \in DOMAIN cache
    /\ LET commit == queue[ci] IN
       IF CacheKey(commit) \in DOMAIN cache
       THEN /\ calls' = Called(calls, commit, cache[CacheKey(commit)])
            /\ cev' = [step |-> "collect", hit |-> TRUE]
            /\ UNCHANGED <<uniqueTextures, perCommit>>
       ELSE LET r == IF IsUDIMPath(commit.filepath)
                     THEN ProbeTiles(commit.filepath,
                                     SelectSeq(TileIds, LAMBDA t :
                                                 OnStorage(TilePath(commit.filepath, t))),
                                     uniqueTextures, <<>>)
                     ELSE LET u == WithUniqueTexture(uniqueTextures, commit.filepath, 0)
                          IN [unique |-> u,
                              indices |-> <<MappedIndex(u, commit.filepath)>>]
            IN /\ uniqueTextures' = r.unique
               /\ perCommit' = [perCommit EXCEPT ![ci] = r.indices]
               /\ cev' = [step |-> "collect", hit |-> FALSE]
               /\ calls' = calls
    /\ stats' = [stats EXCEPT
                   !.queries = @ + 1,
                   !.callbacks = IF CacheKey(queue[ci]) \in DOMAIN cache
                                 THEN @ + 1 ELSE @,
                   !.hits = IF CacheKey(queue[ci]) \in DOMAIN cache
                            THEN @ \cup {ci} ELSE @,
                   !.probes = IF CacheKey(queue[ci]) \notin DOMAIN cache
                                 /\ IsUDIMPath(queue[ci].filepath)
                              THEN @ + Len(TileIds) ELSE @]
    /\ IF ci < Len(queue)
       THEN ci' = ci + 1 /\ cpc' = cpc /\ toLoad' = toLoad
       ELSE ci' = 0 /\ cpc' = "load" /\ toLoad' = DOMAIN uniqueTextures'
    /\ UNCHANGED <<queue, cache, exists, loading, retired>>
    /\ UNCHANGED buildVars
    /\ UNCHANGED mtlxVars

\* Lines 200-202: a task of WorkParallelForN starts on one unique texture;
\* the tasks run in any order and side by side.
StartLoad ==
    /\ cpc = "load"
    /\ \E u \in toLoad :
         /\ toLoad' = toLoad \ {u}
         /\ loading' = loading \cup {u}
         /\ cev' = [step |-> "start", texture |-> u]
    /\ UNCHANGED <<queue, cache, exists, cpc, ci, uniqueTextures, perCommit, calls,
                   stats, retired>>
    /\ UNCHANGED buildVars
    /\ UNCHANGED mtlxVars

\* Mutant: every task writes the first slot.
LoadedFirstSlot(unique, u, textureData) == [unique EXCEPT ![1].data = textureData]

\* uniqueTextures[i].data = textureData, a null textureData leaving the
\* slot as it was constructed.
LoadedSlot(unique, u, textureData) == [unique EXCEPT ![u].data = textureData]

\* Lines 203-207: RprUsdTextureData::New gives the data or null, and the
\* task stores it in the slot of its texture.
LoadTexture ==
    /\ cpc = "load"
    /\ \E u \in loading, textureData \in BOOLEAN :
         /\ uniqueTextures' = LoadedSlot(uniqueTextures, u, textureData)
         /\ loading' = loading \ {u}
         /\ stats' = [stats EXCEPT
                        !.loads[uniqueTextures[u].path] = @ + 1,
                        !.results[uniqueTextures[u].path] =
                            IF textureData THEN "data" ELSE "null"]
         /\ cev' = [step |-> "load", texture |-> u, loaded |-> textureData]
    /\ UNCHANGED <<queue, cache, exists, cpc, ci, perCommit, toLoad, calls, retired>>
    /\ UNCHANGED buildVars
    /\ UNCHANGED mtlxVars

\* Mutant: the loop returns once every task has started.
AllLoadsStarted == toLoad = {}

\* WorkParallelForN returns when every task has ended.
AllLoadsEnded == toLoad = {} /\ loading = {}

\* Line 210: the call goes on to the last loop.
LoadsJoined ==
    /\ cpc = "load"
    /\ AllLoadsEnded
    /\ cpc' = "create"
    /\ ci' = 1
    /\ cev' = [step |-> "joined"]
    /\ UNCHANGED <<queue, cache, exists, uniqueTextures, perCommit, toLoad, loading,
                   calls, stats, retired>>
    /\ UNCHANGED buildVars
    /\ UNCHANGED mtlxVars

\* Mutant: textures that failed to load are not skipped.
CommitTilesUnfiltered(unique, indices) ==
    [k \in DOMAIN indices |->
       [tileId |-> unique[indices[k]].udimTileId, path |-> unique[indices[k]].path]]

\* Lines 219-226: the tiles of one commit, those with data only.
CommitTiles(unique, indices) ==
    LET loaded == SelectSeq(indices, LAMBDA u : unique[u].data)
    IN [k \in DOMAIN loaded |->
          [tileId |-> unique[loaded[k]].udimTileId, path |-> unique[loaded[k]].path]]

\* RprUsdImageCache::GetImage: the image held under the key; else, with no
\* tile, none; else a new image made of the tiles, held from now on.
GetImage(held, key, tiles) ==
    IF key \in DOMAIN held THEN [image |-> held[key], held |-> held]
    ELSE IF tiles = <<>> THEN [image |-> NoImage, held |-> held]
    ELSE LET image == [id |-> Cardinality(DOMAIN held) + 1, tiles |-> tiles]
         IN [image |-> image,
             held |-> [k \in DOMAIN held \cup {key} |->
                         IF k = key THEN image ELSE held[k]]]

\* Mutant: no commit is skipped by the last loop.
SkipsNoCommit(indices) == FALSE

\* if (commitTexIndices.empty()) continue;
SkipsCommit(indices) == indices = <<>>

\* Lines 215-231: one iteration of the last loop.
CreateImage ==
    /\ cpc = "create"
    /\ ci <= Len(queue)
    /\ ci \in DOMAIN perCommit
    /\ LET commit == queue[ci] IN
       IF SkipsCommit(perCommit[ci])
       THEN /\ cev' = [step |-> "create", skipped |-> TRUE]
            /\ UNCHANGED <<cache, calls, stats>>
       ELSE LET tiles == CommitTiles(uniqueTextures, perCommit[ci])
                r == GetImage(cache, CacheKey(commit), tiles)
            IN /\ cache' = r.held
               /\ calls' = Called(calls, commit, r.image)
               /\ stats' = [stats EXCEPT
                              !.queries = @ + 1,
                              !.callbacks = @ + 1,
                              !.requests = Append(@, ci),
                              !.created = IF r.held # cache
                                          THEN Append(@, CacheKey(commit)) ELSE @]
               /\ cev' = [step |-> "create", skipped |-> FALSE]
    /\ ci' = ci + 1
    /\ UNCHANGED <<queue, exists, cpc, uniqueTextures, perCommit, toLoad, loading,
                   retired>>
    /\ UNCHANGED buildVars
    /\ UNCHANGED mtlxVars

\* Mutant: commits whose callback got no image stay queued.
ClearedKeepsFailed(q, cs) ==
    SelectSeq(q, LAMBDA c : cs[c.id] = <<>> \/ cs[c.id] = <<NoImage>>)

\* m_textureCommits.clear()
Cleared(q, cs) == <<>>

\* Lines 233-234: the queue is cleared and the call returns.
ClearCommits ==
    /\ cpc = "create"
    /\ ci > Len(queue)
    /\ queue' = Cleared(queue, calls)
    /\ retired' = retired \cup {queue[i].id : i \in DOMAIN queue}
    /\ cev' = [step |-> "return",
               commits |-> {queue[i].id : i \in DOMAIN queue \cap DOMAIN perCommit},
               late |-> {queue[i].id : i \in DOMAIN queue \ DOMAIN perCommit}]
    /\ cpc' = "idle"
    /\ ci' = 0
    /\ uniqueTextures' = <<>>
    /\ perCommit' = <<>>
    /\ UNCHANGED <<cache, exists, toLoad, loading, calls, stats>>
    /\ UNCHANGED buildVars
    /\ UNCHANGED mtlxVars

NextCommit ==
    \/ CommitTexture
    \/ CommitResourcesBegin
    \/ CollectCommit
    \/ StartLoad
    \/ LoadTexture
    \/ LoadsJoined
    \/ CreateImage
    \/ ClearCommits

(***************************************************************************)
(* Claims about CommitResources.                                           *)
(***************************************************************************)
\* The last loop has ended and the queue is about to be cleared.
BatchDone == cpc = "create" /\ ci > Len(queue)

\* C5: every commit queued when CommitResources starts has its callback
\* invoked exactly once by that call, never twice and never not at all.
C5_CallbackExactlyOnce ==
    /\ \A id \in DOMAIN calls : Len(calls[id]) <= 1
    /\ cev.step = "return" => \A id \in cev.commits : Len(calls[id]) = 1

SameKey(i, j) == CacheKey(queue[i]) = CacheKey(queue[j])

CreatedCount(key) == Cardinality({k \in DOMAIN stats.created : stats.created[k] = key})

\* C6 as claimed: two commits of a batch with the same key cause exactly
\* one raw load of the path, share their unique textures, leave one cache
\* entry for the key and receive the same image.
C6_Dedup ==
    BatchDone =>
      \A i \in DOMAIN queue : \A j \in DOMAIN queue :
        (i < j /\ SameKey(i, j)) =>
          /\ stats.loads[queue[i].filepath] = 1
          /\ perCommit[i] = perCommit[j]
          /\ CacheKey(queue[i]) \in DOMAIN cache
          /\ Len(calls[queue[i].id]) = 1
          /\ calls[queue[i].id] = calls[queue[j].id]

\* The key was not in the cache when the call started.
MissedAtStart(key) == key \notin DOMAIN cache \/ CreatedCount(key) > 0

\* C6 as amended: when the key is not cached at the start of the call, the
\* two commits share their unique textures, each of which (the path itself,
\* or each tile of a UDIM pattern that is on storage) is loaded exactly once;
\* if one of these loads succeeds, one image is created and cached for the
\* key and both callbacks receive it.
C6_DedupOnMiss ==
    BatchDone =>
      \A i \in DOMAIN queue : \A j \in DOMAIN queue :
        (i < j /\ SameKey(i, j) /\ MissedAtStart(CacheKey(queue[i]))) =>
          /\ perCommit[i] = perCommit[j]
          /\ \A k \in DOMAIN perCommit[i] :
               stats.loads[uniqueTextures[perCommit[i][k]].path] = 1
          /\ ~IsUDIMPath(queue[i].filepath) =>
               /\ Len(perCommit[i]) = 1
               /\ uniqueTextures[perCommit[i][1]].path = queue[i].filepath
          /\ (\E k \in DOMAIN perCommit[i] : uniqueTextures[perCommit[i][k]].data) =>
               /\ CacheKey(queue[i]) \in DOMAIN cache
               /\ CreatedCount(CacheKey(queue[i])) = 1
               /\ calls[queue[i].id] = <<cache[CacheKey(queue[i])]>>
               /\ calls[queue[j].id] = <<cache[CacheKey(queue[i])]>>

\* Two commits of one batch with the same key, whose one load succeeded.
C6_Witness ==
    /\ BatchDone
    /\ \E i \in DOMAIN queue : \E j \in DOMAIN queue :
         /\ i < j /\ SameKey(i, j)
         /\ ~IsUDIMPath(queue[i].filepath)
         /\ perCommit[i] # <<>>
         /\ calls[queue[j].id] # <<>>
         /\ calls[queue[j].id][1].id # 0

\* The tile numbers of the unique textures of commit i, in list order.
TileNumbers(i) ==
    [k \in DOMAIN perCommit[i] |-> uniqueTextures[perCommit[i][k]].path.number]

\* C7: after the first loop the list of a UDIM commit that missed the cache
\* holds exactly the tiles 1001..1100 whose file is on storage, each once,
\* in ascending order.
C7_UdimExpansion ==
    cpc = "load" =>
      \A i \in DOMAIN queue :
        (IsUDIMPath(queue[i].filepath) /\ calls[queue[i].id] = <<>>) =>
          /\ \A k \in DOMAIN perCommit[i] :
               uniqueTextures[perCommit[i][k]].path.base = queue[i].filepath.base
          /\ {TileNumbers(i)[k] : k \in DOMAIN perCommit[i]}
               = {t \in 1001..1100 : Path(queue[i].filepath.base, t) \in exists}
          /\ \A k \in DOMAIN perCommit[i] :
               k < Len(perCommit[i]) => TileNumbers(i)[k] < TileNumbers(i)[k + 1]

\* A UDIM commit with tiles 1001, 1003 and 1100, the files 1000 and 1101
\* being on storage too.
C7_Witness ==
    /\ cpc = "load"
    /\ Path("a", 1000) \in exists /\ Path("a", 1101) \in exists
    /\ \E i \in DOMAIN queue :
         /\ IsUDIMPath(queue[i].filepath)
         /\ TileNumbers(i) = <<1001, 1003, 1100>>

LoadedPaths(i) ==
    LET loaded == SelectSeq(perCommit[i], LAMBDA u : uniqueTextures[u].data)
    IN [k \in DOMAIN loaded |-> uniqueTextures[loaded[k]].path]

\* C8: a failed load does not abort the batch; a commit with unique textures
\* gets, through its callback, an image made of exactly its loaded textures,
\* or the null image when none loaded.
C8_PartialLoadFailure ==
    BatchDone =>
      \A i \in DOMAIN queue :
        perCommit[i] # <<>> =>
          /\ Len(calls[queue[i].id]) = 1
          /\ LoadedPaths(i) = <<>> => calls[queue[i].id][1] = NoImage
          /\ LoadedPaths(i) # <<>> =>
               LET image == calls[queue[i].id][1] IN
               /\ image.id # 0
               /\ [k \in DOMAIN image.tiles |-> image.tiles[k].path] = LoadedPaths(i)

\* A batch of three commits: a UDIM commit that lost one of its tiles, a
\* commit whose only load failed, and a commit whose load succeeded.
C8_Witness ==
    /\ BatchDone
    /\ \E i \in DOMAIN queue :
         /\ Len(perCommit[i]) >= 2
         /\ LoadedPaths(i) # <<>>
         /\ Len(LoadedPaths(i)) < Len(perCommit[i])
    /\ \E i \in DOMAIN queue :
         perCommit[i] # <<>> /\ calls[queue[i].id] = <<NoImage>>
    /\ \E i \in DOMAIN queue :
         /\ Len(perCommit[i]) = 1
         /\ calls[queue[i].id] # <<>>
         /\ calls[queue[i].id][1].id # 0

\* C9: when CommitResources returns the queue is empty, a commit of a
\* finished call is never queued again, and a call on an empty queue makes
\* no cache query, no load and no callback.
C9_QueueClearedNoRetry ==
    /\ cev.step = "return" => queue = <<>>
    /\ \A i \in DOMAIN queue : queue[i].id \notin retired
    /\ (cev.step = "return" /\ cev.commits = {}) => stats = NoStats

\* A call on an empty queue after a call whose commit failed.
C9_Witness ==
    /\ cev.step = "return"
    /\ cev.commits = {}
    /\ \E id \in retired : calls[id] = <<NoImage>>

\* The commits the first loop has gone through.
Collected == IF cpc = "collect" THEN 1..(ci - 1) ELSE DOMAIN queue

\* C18: a commit whose key is in the cache when the first loop queries it
\* gets that image through its callback, once; it is given no unique
\* texture, no tile file is probed for it, no load is made that a commit
\* that missed did not ask for, and the last loop makes no request for it.
C18_CacheHitShortCircuit ==
    cpc \in {"collect", "load", "create"} =>
      /\ \A i \in stats.hits :
           /\ perCommit[i] = <<>>
           /\ calls[queue[i].id] = <<cache[CacheKey(queue[i])]>>
      /\ stats.probes =
           (1100 - 1001 + 1) * Cardinality({i \in Collected \ stats.hits :
                                              IsUDIMPath(queue[i].filepath)})
      /\ \A u \in DOMAIN uniqueTextures :
           \E j \in DOMAIN queue \ stats.hits :
             \E k \in DOMAIN perCommit[j] : perCommit[j][k] = u
      /\ \A p \in AllPaths :
           stats.loads[p] > 0 => \E u \in DOMAIN uniqueTextures : uniqueTextures[u].path = p
      /\ \A k \in DOMAIN stats.requests : stats.requests[k] \notin stats.hits

\* A batch of a UDIM commit that hit the cache and a commit that missed.
C18_Witness ==
    /\ BatchDone
    /\ \E i \in stats.hits : IsUDIMPath(queue[i].filepath)
    /\ stats.probes = 0
    /\ Len(stats.requests) = 1
    /\ \E j \in DOMAIN queue \ stats.hits : calls[queue[j].id] # <<>>

\* C19: the last loop runs only when every load has ended, and its image
\* requests are made one after the other in the order of the queue.
C19_PhaseOrdering ==
    /\ stats.requests # <<>> => cpc \in {"create", "idle"}
    /\ cpc = "create" =>
         /\ toLoad = {} /\ loading = {}
         /\ \A u \in DOMAIN uniqueTextures : stats.loads[uniqueTextures[u].path] = 1
         /\ {stats.requests[k] : k \in DOMAIN stats.requests}
              = {j \in 1..(ci - 1) : perCommit[j] # <<>>}
    /\ \A k \in DOMAIN stats.requests :
         k < Len(stats.requests) => stats.requests[k] < stats.requests[k + 1]

\* Three commits with their own image requests, made after three loads.
C19_Witness ==
    /\ BatchDone
    /\ stats.requests = <<1, 2, 3>>
    /\ Len(uniqueTextures) >= 3

\* The unique textures whose load has ended.
Loaded == DOMAIN uniqueTextures \ (toLoad \cup loading)

\* C20: whatever the order of the loads and however many run side by side,
\* each unique texture is loaded once, a task stores its result in the slot
\* of its own texture and in no other, and after the loop every slot holds
\* what the load of its own path gave.
C20_ParallelLoad ==
    /\ cev.step = "load" => uniqueTextures[cev.texture].data = cev.loaded
    /\ cpc \in {"load", "create"} =>
         /\ \A u \in Loaded :
              /\ stats.loads[uniqueTextures[u].path] = 1
              /\ uniqueTextures[u].data = (stats.results[uniqueTextures[u].path] = "data")
         /\ \A u \in toLoad \cup loading :
              /\ stats.loads[uniqueTextures[u].path] = 0
              /\ ~uniqueTextures[u].data

\* Two loads run side by side while a texture of a higher index is loaded.
C20_Witness ==
    /\ cpc = "load"
    /\ Cardinality(loading) >= 2
    /\ \E u \in Loaded :
         /\ uniqueTextures[u].data
         /\ \A v \in loading : v < u

\* The tile list the last loop passed to the image cache for commit j.
RequestedTiles(j) == CommitTiles(uniqueTextures, perCommit[j])

\* C22: in the tile list passed to the image cache, every entry of a
\* single-image commit carries the tile id 0 and every entry of a UDIM
\* commit the tile id in 1001..1100 under which the commit probed the file.
C22_TileIdsOfCommit ==
    cpc = "create" =>
      \A k \in DOMAIN stats.requests :
        LET j == stats.requests[k]
            tiles == RequestedTiles(j)
        IN \A t \in DOMAIN tiles :
             IF IsUDIMPath(queue[j].filepath)
             THEN /\ tiles[t].tileId \in 1001..1100
                  /\ tiles[t].path = TilePath(queue[j].filepath, tiles[t].tileId)
             ELSE tiles[t].tileId = 0

(***************************************************************************)
(* CommitResources while a material build queues a texture commit.         *)
(* CommitResources holds no lock between line 143 and line 234, and its    *)
(* loops read m_textureCommits.size() at every iteration.                  *)
(***************************************************************************)
\* A material build queues a commit while CommitResources runs; the loops
\* of CommitResources see the new size at their next test.
ConcurrentCommitTexture ==
    /\ cpc \in {"collect", "load", "create"}
    /\ Len(calls) < MaxCommits
    /\ \E path \in CommitPaths, colorspace \in ColorSpaces, wrapType \in WrapTypes :
         queue' = Append(queue, [id |-> Len(calls) + 1, filepath |-> path,
                                 colorspace |-> colorspace, wrapType |-> wrapType])
    /\ calls' = Append(calls, <<>>)
    /\ cev' = [step |-> "ConcurrentCommitTexture"]
    /\ UNCHANGED <<cache, exists, cpc, ci, uniqueTextures, perCommit, toLoad, loading,
                   stats, retired>>
    /\ UNCHANGED buildVars
    /\ UNCHANGED mtlxVars

\* A material build queues a commit after the last test of the loop of line
\* 215 and before the clear of line 233, which removes it with the rest.
CommitTextureBeforeClear ==
    /\ cpc = "create"
    /\ ci > Len(queue)
    /\ Len(calls) < MaxCommits
    /\ queue' = Cleared(queue, calls)
    /\ calls' = Append(calls, <<>>)
    /\ retired' = retired \cup {queue[i].id : i \in DOMAIN queue} \cup {Len(calls) + 1}
    /\ cev' = [step |-> "return",
               commits |-> {queue[i].id : i \in DOMAIN queue \cap DOMAIN perCommit},
               late |-> {queue[i].id : i \in DOMAIN queue \ DOMAIN perCommit}
                          \cup {Len(calls) + 1}]
    /\ cpc' = "idle"
    /\ ci' = 0
    /\ uniqueTextures' = <<>>
    /\ perCommit' = <<>>
    /\ UNCHANGED <<cache, exists, toLoad, loading, stats>>
    /\ UNCHANGED buildVars
    /\ UNCHANGED mtlxVars

\* What an access to uniqueTextureIndicesPerCommit[i] beyond the array made
\* at line 150 can do: end the process, or go on with the bytes found there
\* read as an empty vector.
OverrunOutcomes == {"crash", "empty"}

\* Lines 181 and 216: the loops index the array with a position of a commit
\* queued after the array was made.
IndexBeyondBookkeeping ==
    /\ cpc \in {"collect", "create"}
    /\ ci \in DOMAIN queue
    /\ ci \notin DOMAIN perCommit
    /\ cpc = "collect" => CacheKey(queue[ci]) \notin DOMAIN cache
    /\ cev' = [step |-> "overrun", index |-> ci, size |-> Len(perCommit)]
    /\ \E outcome \in OverrunOutcomes :
         IF outcome = "crash"
         THEN /\ cpc' = "crashed"
              /\ UNCHANGED <<ci, toLoad, stats>>
         ELSE IF cpc = "collect"
         THEN /\ stats' = [stats EXCEPT !.queries = @ + 1]
              /\ IF ci < Len(queue)
                 THEN ci' = ci + 1 /\ cpc' = cpc /\ toLoad' = toLoad
                 ELSE ci' = 0 /\ cpc' = "load" /\ toLoad' = DOMAIN uniqueTextures
         ELSE /\ ci' = ci + 1
              /\ UNCHANGED <<cpc, toLoad, stats>>
    /\ UNCHANGED <<queue, cache, exists, uniqueTextures, perCommit, loading, calls, retired>>
    /\ UNCHANGED buildVars
    /\ UNCHANGED mtlxVars

\* C23: a commit queued while CommitResources runs has its callback invoked
\* once before it leaves the queue, and the running call never indexes its
\* per-commit array with a position beyond the array's size.
C23_ConcurrentCommitNotLost ==
    /\ cev.step # "overrun"
    /\ cev.step = "return" => \A id \in cev.late : Len(calls[id]) = 1

NextOverlap ==
    \/ NextCommit
    \/ ConcurrentCommitTexture
    \/ CommitTextureBeforeClear
    \/ IndexBeyondBookkeeping

(***************************************************************************)
(* Concurrent CreateMaterial calls on one registry: lines 405-432 and      *)
(* CreateMaterialXFromUsdShade, lines 331-401.                             *)
(***************************************************************************)
\* The callers that build a material at the same time.
Threads == {1, 2}

\* std::string m_materialXStdlibPath: empty, the directory found through the
\* plugin registry, or the bytes of a string read while it is assigned.
EmptyPath == "empty"
UsdDir == "usdDir"
TornPath == "torn"

NoInput == [isVolume |-> FALSE, mtlxTerminal |-> FALSE, mtlxNode |-> FALSE]
NoResult == [returned |-> "none", libraries |-> "none"]

IdleMtlx ==
    /\ stdlibPath = EmptyPath
    /\ usdPlugin = FALSE
    /\ tpc = [t \in Threads |-> "idle"]
    /\ tin = [t \in Threads |-> NoInput]
    /\ tres = [t \in Threads |-> NoResult]
    /\ raced = FALSE

InitMtlx ==
    /\ stdlibPath = EmptyPath
    /\ usdPlugin \in BOOLEAN
    /\ tpc = [t \in Threads |-> "entry"]
    /\ tin = [t \in Threads |-> NoInput]
    /\ tres = [t \in Threads |-> NoResult]
    /\ raced = FALSE

\* Another call is between the start and the end of the assignment of line
\* 362.
OtherWrites(t) == \E o \in Threads \ {t} : tpc[o] = "writing"

\* What a read of the member gives: its value, or any value when the read
\* overlaps an assignment by another call (a data race).
ReadValues(t) ==
    IF OtherWrites(t) THEN {EmptyPath, UsdDir, TornPath} ELSE {stdlibPath}

\* Lines 416-432 and 335-354: a volume network skips MaterialX; so does a
\* network whose surface terminal is no MaterialX node of the Sdr registry.
EnterCreateMaterial(t) ==
    /\ tpc[t] = "entry"
    /\ \E isVolume \in BOOLEAN, mtlxTerminal \in BOOLEAN, mtlxNode \in BOOLEAN :
         /\ tin' = [tin EXCEPT ![t] = [isVolume |-> isVolume,
                                       mtlxTerminal |-> mtlxTerminal,
                                       mtlxNode |-> mtlxNode]]
         /\ tpc' = [tpc EXCEPT ![t] = IF ~isVolume /\ mtlxTerminal
                                      THEN "checkPath" ELSE "graph"]
    /\ UNCHANGED <<stdlibPath, usdPlugin, tres, raced>>
    /\ UNCHANGED <<buildVars, commitVars>>

\* Lines 356-359: materialXStdlibPath->empty(), then the plugin lookup.
CheckStdlibPath(t) ==
    /\ tpc[t] = "checkPath"
    /\ \E read \in ReadValues(t) :
         tpc' = [tpc EXCEPT ![t] = IF read = EmptyPath /\ usdPlugin
                                   THEN "assign" ELSE "load"]
    /\ raced' = (raced \/ OtherWrites(t))
    /\ UNCHANGED <<stdlibPath, usdPlugin, tin, tres>>
    /\ UNCHANGED <<buildVars, commitVars>>

\* Line 362: *materialXStdlibPath = usdDir starts; the string is neither the
\* old nor the new one until the assignment ends.
BeginAssignStdlibPath(t) ==
    /\ tpc[t] = "assign"
    /\ tpc' = [tpc EXCEPT ![t] = "writing"]
    /\ stdlibPath' = TornPath
    /\ raced' = (raced \/ OtherWrites(t))
    /\ UNCHANGED <<usdPlugin, tin, tres>>
    /\ UNCHANGED <<buildVars, commitVars>>

\* Line 362 ends. Two overlapping assignments leave any of the outcomes.
EndAssignStdlibPath(t) ==
    /\ tpc[t] = "writing"
    /\ tpc' = [tpc EXCEPT ![t] = "load"]
    /\ stdlibPath' \in (IF raced \/ OtherWrites(t) THEN {UsdDir, TornPath} ELSE {UsdDir})
    /\ UNCHANGED <<usdPlugin, tin, tres, raced>>
    /\ UNCHANGED <<buildVars, commitVars>>

\* Lines 366-400: the libraries are loaded from the path read at line 368,
\* and the MaterialX material is returned unless the backend gives no node.
LoadLibraries(t) ==
    /\ tpc[t] = "load"
    /\ \E read \in ReadValues(t) :
         tres' = [tres EXCEPT ![t] = [returned |-> IF tin[t].mtlxNode THEN "mtlx" ELSE "none",
                                      libraries |-> read]]
    /\ tpc' = [tpc EXCEPT ![t] = IF tin[t].mtlxNode THEN "done" ELSE "graph"]
    /\ raced' = (raced \/ OtherWrites(t))
    /\ UNCHANGED <<stdlibPath, usdPlugin, tin>>
    /\ UNCHANGED <<buildVars, commitVars>>

\* Lines 434-635: the graph is built from the call's own network; of the
\* registry only m_registeredNodesLookup and m_registeredNodes are read.
BuildGraph(t) ==
    /\ tpc[t] = "graph"
    /\ \E built \in {"graph", "null"} :
         tres' = [tres EXCEPT ![t].returned = built]
    /\ tpc' = [tpc EXCEPT ![t] = "done"]
    /\ UNCHANGED <<stdlibPath, usdPlugin, tin, raced>>
    /\ UNCHANGED <<buildVars, commitVars>>

\* The library path a call loads from when no other call runs.
AloneLibraries(t) ==
    IF tin[t].isVolume \/ ~tin[t].mtlxTerminal THEN "none"
    ELSE IF usdPlugin THEN UsdDir ELSE EmptyPath

\* C11: two concurrent CreateMaterial calls never access a registry member
\* at the same time with one of them writing, and each call loads what it
\* loads when run alone.
C11_NoRegistryRace ==
    /\ ~raced
    /\ \A t \in Threads : tpc[t] = "done" => tres[t].libraries = AloneLibraries(t)

NextMtlx ==
    \/ \E t \in Threads : EnterCreateMaterial(t)
    \/ \E t \in Threads : CheckStdlibPath(t)
    \/ \E t \in Threads : BeginAssignStdlibPath(t)
    \/ \E t \in Threads : EndAssignStdlibPath(t)
    \/ \E t \in Threads : LoadLibraries(t)
    \/ \E t \in Threads : BuildGraph(t)

\* CreateMaterial is called; no texture is queued.
Init == InitBuild /\ IdleCommit /\ IdleMtlx

\* Texture commits are queued and resolved; no material is being built.
InitResources == IdleBuild /\ InitCommit /\ IdleMtlx

\* Two callers build a material each on the same registry.
InitConcurrent == IdleBuild /\ IdleCommit /\ InitMtlx

Spec == Init /\ [][NextBuild]_vars

SpecCommit == InitResources /\ [][NextCommit]_vars

SpecConcurrent == InitConcurrent /\ [][NextMtlx]_vars

SpecOverlap == InitResources /\ [][NextOverlap]_vars
====
